---- MODULE Spec2Model ----
(***************************************************************************)
(* Model of src/server.py (Air Purifier Monitor): the RabbitMQ consumer    *)
(* thread (rabbitmq_consumer and its callback), process_sensor_data, the   *)
(* Prometheus gauges/counter, the sensor_data table, the HTTP publisher    *)
(* (receive_sensor_data) and the broker / database they talk to.           *)
(*                                                                         *)
(* Floats are abstracted by small naturals.  A message body is abstracted  *)
(* by the JSON shape json.loads would see: plain text that is not JSON, a  *)
(* JSON value that is not an object, or an object whose three fields are   *)
(* absent, null, a number, a numeric string or a non-numeric string.       *)
(***************************************************************************)
EXTENDS Naturals, Integers, Sequences, FiniteSets, TLC

\* ---------------------------------------------------------------- bounds
MaxMsgs == 2          \* messages ever put on the queue
MaxOutages == 1       \* broker outages in one behaviour
MaxQueries == 2       \* GET /latest-data requests in one behaviour

\* ------------------------------------------------------ program constants
\* variant: two unsettled deliveries allowed
PrefetchCount_Two == 1 + 1
PrefetchCount == 1    \* channel.basic_qos(prefetch_count=1)
\* variant: messages published as transient
DeliveryMode_Transient == 0 + 1
DeliveryMode == 2     \* pika.BasicProperties(delivery_mode=2)
BackoffSeconds == 5   \* time.sleep(5)
\* variant: a missing key decodes as one
FieldDefault_One == 0 + 1
FieldDefault == 0     \* data.get("co2", 0)
\* variant: the broker settles a message as it delivers it
AutoAck_On == TRUE
AutoAck == FALSE      \* basic_consume(...) keeps pika's default auto_ack=False
QueueDurable == TRUE  \* queue_declare(queue=QUEUE_NAME, durable=True)
NackRequeue == FALSE  \* basic_nack(..., requeue=False)

Vals == {0, 1, 2}     \* abstract float values

\* ------------------------------------------------------------ JSON shapes
Missing == [t |-> "missing", v |-> 0]
Null    == [t |-> "null",    v |-> 0]
BadStr  == [t |-> "badstr",  v |-> 0]
Num(n)    == [t |-> "num",    v |-> n]
NumStr(n) == [t |-> "numstr", v |-> n]

Obj(c, h, t) == [kind |-> "object", co2 |-> c, humidity |-> h, temperature |-> t]
TextBody  == [kind |-> "text",  co2 |-> Missing, humidity |-> Missing, temperature |-> Missing]
ArrayBody == [kind |-> "array", co2 |-> Missing, humidity |-> Missing, temperature |-> Missing]

\* bodies other producers put on the queue, and request payloads
SampleBodies ==
  { TextBody, ArrayBody,
    Obj(Num(2), Missing, NumStr(1)),
    Obj(Num(1), BadStr, Num(2)) }

\* readings the synthetic generator draws
DummyReadings == { [co2 |-> 2, humidity |-> 1, temperature |-> 2] }

SampleRequests ==
  { Obj(Num(1), NumStr(2), Num(1)),
    Obj(Num(1), Null, Num(1)) }

\* variant: a value that cannot be coerced falls back to the default
Coerce_Lenient(f) ==
  CASE f.t = "num"     -> [ok |-> TRUE,  v |-> f.v]
    [] f.t = "numstr"  -> [ok |-> TRUE,  v |-> f.v]
    [] OTHER           -> [ok |-> TRUE,  v |-> FieldDefault]

\* float(data.get(key, 0)): value, or failure (ValueError / TypeError)
Coerce(f) ==
  CASE f.t = "missing" -> [ok |-> TRUE,  v |-> FieldDefault]
    [] f.t = "num"     -> [ok |-> TRUE,  v |-> f.v]
    [] f.t = "numstr"  -> [ok |-> TRUE,  v |-> f.v]
    [] OTHER           -> [ok |-> FALSE, v |-> 0]

\* json.loads(body) followed by the three float(data.get(...)) coercions
Decode(body) ==
  LET c == Coerce(body.co2)
      h == Coerce(body.humidity)
      t == Coerce(body.temperature)
  IN  IF body.kind = "object" /\ c.ok /\ h.ok /\ t.ok
      THEN [ok |-> TRUE,  co2 |-> c.v, humidity |-> h.v, temperature |-> t.v]
      ELSE [ok |-> FALSE, co2 |-> 0,   humidity |-> 0,   temperature |-> 0]

\* variant: humidity and temperature written under each other's key
Encode_Swapped(c, h, t) == Obj(Num(c), Num(t), Num(h))

\* json.dumps({"co2": co2, "humidity": humidity, "temperature": temperature})
Encode(c, h, t) == Obj(Num(c), Num(h), Num(t))

\* variant: humidity and temperature bound to the wrong columns
InsertRow_Swapped(ts, c, h, t, id) ==
  [timestamp |-> ts, co2_ppm |-> c, humidity_percent |-> t,
   temperature_celsius |-> h, src |-> id]

\* the row written by the INSERT; src is the id of the message it came from
InsertRow(ts, c, h, t, id) ==
  [timestamp |-> ts, co2_ppm |-> c, humidity_percent |-> h,
   temperature_celsius |-> t, src |-> id]

NoRow == [timestamp |-> 0, co2_ppm |-> 0, humidity_percent |-> 0,
          temperature_celsius |-> 0, src |-> 0]

\* SELECT * FROM sensor_data ORDER BY timestamp DESC LIMIT 1
Latest(rows) ==
  IF rows = <<>> THEN NoRow
  ELSE LET i == CHOOSE j \in 1..Len(rows) :
                  \A k \in 1..Len(rows) : rows[k].timestamp <= rows[j].timestamp
       IN  rows[i]

\* variant: the generic clause retries at once, without the sleep
OuterHandler_NoSleep(exc) ==
  IF exc = "AMQPConnectionError" THEN "sleep88"
  ELSE IF exc \in {"AMQPChannelError", "Exception"} THEN "connect"
  ELSE "terminated"

\* variant: only pika's connection error is caught
OuterHandler_ConnectionOnly(exc) ==
  IF exc = "AMQPConnectionError" THEN "sleep88" ELSE "terminated"

\* variant: a connection error ends the loop instead of retrying
OuterHandler_GivesUp(exc) ==
  IF exc = "AMQPConnectionError" THEN "terminated"
  ELSE IF exc \in {"AMQPChannelError", "Exception"} THEN "sleep91"
  ELSE "terminated"

\* which except clause of the supervisor loop takes an exception raised
\* inside the try block, and where the thread goes next
OuterHandler(exc) ==
  IF exc = "AMQPConnectionError" THEN "sleep88"
  ELSE IF exc \in {"AMQPChannelError", "Exception"} THEN "sleep91"
  ELSE "terminated"

\* exceptions pika raises when the connection or channel is gone
ChannelErrors == {"AMQPConnectionError", "AMQPChannelError"}

NoDelivery == [id |-> 0, body |-> TextBody, acks |-> 0,
               cntBefore |-> 0, rowsBefore |-> 0, inserted |-> FALSE,
               outage |-> FALSE]

\* the four metric values before any reading was observed
NoSnap == [co2 |-> 0, humidity |-> 0, temperature |-> 0, count |-> 0]

NoLocals == [co2 |-> 0, humidity |-> 0, temperature |-> 0]

Min(a, b) == IF a < b THEN a ELSE b

VARIABLES
  pc,            \* position of the consumer thread
  chanOpen,      \* the consumer's current connection/channel is alive
  registered,    \* basic_consume is in force on that channel
  pending,       \* deliveries received by pika, callback not yet invoked
  cur,           \* the delivery the callback is handling: message id and
                 \* body, acks issued, counter and row count at dispatch,
                 \* row inserted, database seen down during the handling
  loc,           \* co2, humidity, temperature locals of the callback
  dbConn,        \* process_sensor_data holds an open database connection
  co2_gauge, humidity_gauge, temperature_gauge, data_received_counter,
  store,         \* rows of table sensor_data, in insertion order
  now,           \* datetime.now()
  dbUp,          \* the database accepts connections and statements
  dbOpenConns,   \* database connections opened and not closed
  brokerUp,      \* the broker is reachable
  ready,         \* messages in queue sensor_data waiting for delivery
  unacked,       \* messages delivered on the consumer's channel, unsettled
  outages,       \* broker outages so far
  nextId,        \* id of the next message put on the queue
  pubPc,         \* position of receive_sensor_data
  pubVals,       \* its co2, humidity, temperature locals
  pubChanOpen,   \* its connection is alive
  pubOpenConns,  \* publisher connections opened and not closed
  httpResp,      \* status of the last POST /sensor-data response, 0 if none
  attemptsSinceBackoff, \* connection attempts since the last time.sleep
  lastBackoff,   \* length of the last time.sleep, 0 if none
  settled,       \* how each message left the queue: id -> "ack" / "nack"
  everLost,      \* the connection was lost while the consumer was registered
  qPc,           \* position of get_latest_data
  qRow,          \* the row its fetchrow returned
  qResp,         \* status of the last GET /latest-data response, 0 if none
  queries,       \* GET /latest-data requests so far
  sPc,           \* position of generate_latest() inside metrics()
  snap,          \* the values the running / last scrape has read
  lastObs,       \* gauges and counter after the last complete lines 36-39
  handledDone    \* callbacks finished for a body that decoded

vars == << pc, chanOpen, registered, pending, cur, loc, dbConn,
           co2_gauge, humidity_gauge, temperature_gauge, data_received_counter,
           store, now, dbUp, dbOpenConns,
           brokerUp, ready, unacked, outages, nextId,
           pubPc, pubVals, pubChanOpen, pubOpenConns, httpResp,
           attemptsSinceBackoff, lastBackoff, settled, everLost,
           qPc, qRow, qResp, queries, sPc, snap, lastObs, handledDone >>

queryVars    == << qPc, qRow, qResp, queries >>
scrapeVars   == << sPc, snap >>
consumerVars == << pc, chanOpen, registered, pending, cur, loc, dbConn >>
metricVars   == << co2_gauge, humidity_gauge, temperature_gauge, data_received_counter >>
storeVars    == << store, now, dbOpenConns >>
queueVars    == << ready, unacked, nextId >>
pubVars      == << pubPc, pubVals, pubChanOpen, pubOpenConns, httpResp >>
histVars     == << attemptsSinceBackoff, lastBackoff, settled, everLost >>

Init ==
  /\ pc = "connect" /\ chanOpen = FALSE /\ registered = FALSE
  /\ pending = <<>> /\ cur = NoDelivery /\ loc = NoLocals /\ dbConn = FALSE
  /\ co2_gauge = 0 /\ humidity_gauge = 0 /\ temperature_gauge = 0
  /\ data_received_counter = 0
  /\ store = <<>> /\ now = 1 /\ dbUp \in BOOLEAN /\ dbOpenConns = 0
  /\ brokerUp \in BOOLEAN /\ ready = <<>> /\ unacked = <<>>
  /\ outages = 0 /\ nextId = 1
  /\ pubPc = "idle" /\ pubVals = NoLocals /\ pubChanOpen = FALSE
  /\ pubOpenConns = 0 /\ httpResp = 0
  /\ attemptsSinceBackoff = 0 /\ lastBackoff = 0
  /\ settled = [i \in 1..MaxMsgs |-> "none"] /\ everLost = FALSE
  /\ qPc = "idle" /\ qRow = NoRow /\ qResp = 0 /\ queries = 0
  /\ sPc = "idle" /\ snap = NoSnap
  /\ lastObs = NoSnap /\ handledDone = 0


\* ------------------------------------------------------------- helpers
Without(q, id) == SelectSeq(q, LAMBDA m : m.id # id)
Holds(q, id)   == \E i \in 1..Len(q) : q[i].id = id

\* a message published with delivery_mode 2 to a durable queue is kept by
\* a broker restart
Survives(m) == QueueDurable /\ m.mode = 2

\* ------------------------------------------- consumer thread, lines 53-92
\* line 58-59: pika.BlockingConnection(...), connection.channel()
Connect ==
  /\ pc = "connect"
  /\ attemptsSinceBackoff' = Min(attemptsSinceBackoff + 1, 2)
  /\ IF brokerUp
     THEN /\ chanOpen' = TRUE
          /\ pc' = "declare"
     ELSE /\ chanOpen' = FALSE
          /\ pc' = OuterHandler("AMQPConnectionError")
  /\ UNCHANGED << queryVars, scrapeVars, lastObs, handledDone, 
                  registered, pending, cur, loc, dbConn, metricVars, storeVars,
                  dbUp, brokerUp, queueVars, outages, pubVars,
                  lastBackoff, settled, everLost >>

\* line 62: channel.queue_declare(queue=QUEUE_NAME, durable=True)
Declare ==
  /\ pc = "declare"
  /\ IF chanOpen
     THEN pc' = "register"
     ELSE \E exc \in ChannelErrors : pc' = OuterHandler(exc)
  /\ UNCHANGED << queryVars, scrapeVars, lastObs, handledDone, 
                  chanOpen, registered, pending, cur, loc, dbConn, metricVars,
                  storeVars, dbUp, brokerUp, queueVars, outages, pubVars, histVars >>

\* lines 82-83: channel.basic_qos(prefetch_count=1), channel.basic_consume(...)
Register ==
  /\ pc = "register"
  /\ IF chanOpen
     THEN /\ registered' = TRUE
          /\ pc' = "consuming"
     ELSE /\ registered' = registered
          /\ \E exc \in ChannelErrors : pc' = OuterHandler(exc)
  /\ UNCHANGED << queryVars, scrapeVars, lastObs, handledDone, 
                  chanOpen, pending, cur, loc, dbConn, metricVars,
                  storeVars, dbUp, brokerUp, queueVars, outages, pubVars, histVars >>

\* line 85: channel.start_consuming() hands the next delivery to callback
Dispatch ==
  /\ pc = "consuming"
  /\ chanOpen
  /\ pending # <<>>
  /\ cur' = [id |-> Head(pending).id, body |-> Head(pending).body,
             acks |-> 0,
             cntBefore |-> data_received_counter,
             rowsBefore |-> Len(store), inserted |-> FALSE,
             outage |-> ~dbUp]
  /\ pending' = Tail(pending)
  /\ pc' = "decode"
  /\ UNCHANGED << queryVars, scrapeVars, lastObs, handledDone, 
                  chanOpen, registered, loc, dbConn, metricVars, storeVars,
                  dbUp, brokerUp, queueVars, outages, pubVars, histVars >>

\* line 85: channel.start_consuming() raises once the channel is gone
ConsumeFails ==
  /\ pc = "consuming"
  /\ ~chanOpen
  /\ \E exc \in ChannelErrors : pc' = OuterHandler(exc)
  /\ UNCHANGED << queryVars, scrapeVars, lastObs, handledDone, 
                  chanOpen, registered, pending, cur, loc, dbConn, metricVars,
                  storeVars, dbUp, brokerUp, queueVars, outages, pubVars, histVars >>

\* lines 87-92: print and time.sleep(5) of either except clause
Backoff ==
  /\ pc \in {"sleep88", "sleep91"}
  /\ lastBackoff' = BackoffSeconds
  /\ attemptsSinceBackoff' = 0
  /\ pc' = "connect"
  /\ UNCHANGED << queryVars, scrapeVars, lastObs, handledDone, 
                  chanOpen, registered, pending, cur, loc, dbConn, metricVars,
                  storeVars, dbUp, brokerUp, queueVars, outages, pubVars,
                  settled, everLost >>

\* ---------------------------------------------------- callback, lines 66-80
\* lines 68-71: json.loads and the three float() coercions
DecodeBody ==
  /\ pc = "decode"
  /\ LET d == Decode(cur.body)
     IN  IF d.ok
         THEN /\ loc' = [co2 |-> d.co2, humidity |-> d.humidity,
                         temperature |-> d.temperature]
              /\ pc' = "set_co2"
         ELSE /\ loc' = loc
              /\ pc' = "nack"
  /\ UNCHANGED << queryVars, scrapeVars, lastObs, handledDone, 
                  chanOpen, registered, pending, cur, dbConn, metricVars,
                  storeVars, dbUp, brokerUp, queueVars, outages, pubVars, histVars >>

\* line 76: ch.basic_ack(delivery_tag=method.delivery_tag)
Ack ==
  /\ pc = "ack"
  /\ IF chanOpen
     THEN /\ cur' = [cur EXCEPT !.acks = 1]
          /\ unacked' = Without(unacked, cur.id)
          /\ settled' = IF Holds(unacked, cur.id)
                        THEN [settled EXCEPT ![cur.id] = "ack"] ELSE settled
          /\ pc' = "print77"
     ELSE /\ UNCHANGED << cur, unacked, settled >>
          /\ pc' = "nack"
  /\ UNCHANGED << queryVars, scrapeVars, lastObs, handledDone, 
                  chanOpen, registered, pending, loc, dbConn, metricVars,
                  storeVars, dbUp, brokerUp, ready, nextId, outages, pubVars,
                  attemptsSinceBackoff, lastBackoff, everLost >>

\* line 77: the log print after the ack; it raises when stdout cannot
\* encode the non-ASCII characters of the line
Print77 ==
  /\ pc = "print77"
  /\ \E ok \in BOOLEAN :
       IF ok THEN /\ pc' = "consuming"
                  /\ cur' = NoDelivery
                  /\ loc' = NoLocals
                  /\ handledDone' = handledDone + 1
             ELSE /\ pc' = "nack"
                  /\ UNCHANGED << cur, loc, handledDone >>
  /\ UNCHANGED << queryVars, scrapeVars, lastObs, 
                  chanOpen, registered, pending, dbConn, metricVars,
                  storeVars, dbUp, brokerUp, queueVars, outages, pubVars, histVars >>

\* lines 78-80: print, ch.basic_nack(delivery_tag=..., requeue=False)
Nack ==
  /\ pc = "nack"
  /\ handledDone' = IF Decode(cur.body).ok THEN handledDone + 1 ELSE handledDone
  /\ IF chanOpen
     THEN /\ pc' = "consuming"
          /\ cur' = NoDelivery
          /\ loc' = NoLocals
          /\ IF Holds(unacked, cur.id)
             THEN /\ unacked' = Without(unacked, cur.id)
                  /\ ready' = IF NackRequeue
                              THEN SelectSeq(unacked, LAMBDA m : m.id = cur.id) \o ready
                              ELSE ready
                  /\ settled' = IF NackRequeue THEN settled
                                ELSE [settled EXCEPT ![cur.id] = "nack"]
                  /\ UNCHANGED << chanOpen, registered, pending >>
             ELSE \* unknown delivery tag: the broker closes the channel
                  /\ chanOpen' = FALSE
                  /\ registered' = FALSE
                  /\ pending' = <<>>
                  /\ ready' = unacked \o ready
                  /\ unacked' = <<>>
                  /\ settled' = settled
     ELSE \* basic_nack raises out of callback and out of start_consuming
          /\ \E exc \in ChannelErrors : pc' = OuterHandler(exc)
          /\ cur' = NoDelivery
          /\ loc' = NoLocals
          /\ UNCHANGED << chanOpen, registered, pending, ready, unacked, settled >>
  /\ UNCHANGED << queryVars, scrapeVars, lastObs, 
                  dbConn, metricVars, storeVars, dbUp, brokerUp, nextId,
                  outages, pubVars, attemptsSinceBackoff, lastBackoff, everLost >>


\* ------------------------------------------ process_sensor_data, lines 32-51
\* line 36: co2_gauge.set(co2)
SetCo2 ==
  /\ pc = "set_co2"
  /\ co2_gauge' = loc.co2
  /\ pc' = "set_humidity"
  /\ UNCHANGED << queryVars, scrapeVars, lastObs, handledDone, 
                  chanOpen, registered, pending, cur, loc, dbConn,
                  humidity_gauge, temperature_gauge, data_received_counter,
                  storeVars, dbUp, brokerUp, queueVars, outages, pubVars, histVars >>

\* line 37: humidity_gauge.set(humidity)
SetHumidity ==
  /\ pc = "set_humidity"
  /\ humidity_gauge' = loc.humidity
  /\ pc' = "set_temperature"
  /\ UNCHANGED << queryVars, scrapeVars, lastObs, handledDone, 
                  chanOpen, registered, pending, cur, loc, dbConn,
                  co2_gauge, temperature_gauge, data_received_counter,
                  storeVars, dbUp, brokerUp, queueVars, outages, pubVars, histVars >>

\* variant: the temperature gauge is set from the humidity local
SetTemperature_CopyPaste ==
  /\ pc = "set_temperature"
  /\ temperature_gauge' = loc.humidity
  /\ pc' = "inc"
  /\ UNCHANGED << queryVars, scrapeVars, lastObs, handledDone, 
                  chanOpen, registered, pending, cur, loc, dbConn,
                  co2_gauge, humidity_gauge, data_received_counter,
                  storeVars, dbUp, brokerUp, queueVars, outages, pubVars, histVars >>

\* line 38: temperature_gauge.set(temperature)
SetTemperature ==
  /\ pc = "set_temperature"
  /\ temperature_gauge' = loc.temperature
  /\ pc' = "inc"
  /\ UNCHANGED << queryVars, scrapeVars, lastObs, handledDone, 
                  chanOpen, registered, pending, cur, loc, dbConn,
                  co2_gauge, humidity_gauge, data_received_counter,
                  storeVars, dbUp, brokerUp, queueVars, outages, pubVars, histVars >>

\* variant: the counter is incremented only while the store is reachable
IncCounter_OnlyWhenStoreUp ==
  /\ pc = "inc"
  /\ data_received_counter' = IF dbUp THEN data_received_counter + 1
                                      ELSE data_received_counter
  /\ lastObs' = [co2 |-> co2_gauge, humidity |-> humidity_gauge,
                 temperature |-> temperature_gauge,
                 count |-> data_received_counter']
  /\ pc' = "db_connect"
  /\ UNCHANGED << queryVars, scrapeVars, handledDone,
                  chanOpen, registered, pending, cur, loc, dbConn,
                  co2_gauge, humidity_gauge, temperature_gauge,
                  storeVars, dbUp, brokerUp, queueVars, outages, pubVars, histVars >>

\* line 39: data_received_counter.inc()
IncCounter ==
  /\ pc = "inc"
  /\ data_received_counter' = data_received_counter + 1
  /\ lastObs' = [co2 |-> co2_gauge, humidity |-> humidity_gauge,
                 temperature |-> temperature_gauge,
                 count |-> data_received_counter + 1]
  /\ pc' = "db_connect"
  /\ UNCHANGED << queryVars, scrapeVars, handledDone, 
                  chanOpen, registered, pending, cur, loc, dbConn,
                  co2_gauge, humidity_gauge, temperature_gauge,
                  storeVars, dbUp, brokerUp, queueVars, outages, pubVars, histVars >>

\* where asyncio.run(process_sensor_data(...)) leaves the callback when the
\* body of process_sensor_data raised: lines 50-51 print and return
AfterStoreError == "ack"

\* line 42: conn = await get_db_connection()
DbConnect ==
  /\ pc = "db_connect"
  /\ IF dbUp
     THEN /\ dbConn' = TRUE
          /\ dbOpenConns' = dbOpenConns + 1
          /\ pc' = "db_insert"
     ELSE /\ UNCHANGED << dbConn, dbOpenConns >>
          /\ pc' = AfterStoreError
  /\ UNCHANGED << queryVars, scrapeVars, lastObs, handledDone, 
                  chanOpen, registered, pending, cur, loc, metricVars,
                  store, now, dbUp, brokerUp, queueVars, outages, pubVars, histVars >>

\* lines 43-46: await conn.execute("INSERT INTO sensor_data ...", datetime.now(), ...)
DbInsert ==
  /\ pc = "db_insert"
  /\ IF dbUp
     THEN /\ store' = Append(store, InsertRow(now, loc.co2, loc.humidity,
                                              loc.temperature, cur.id))
          /\ now' = now + 1
          /\ cur' = [cur EXCEPT !.inserted = TRUE]
          /\ pc' = "db_close"
          /\ dbConn' = dbConn
     ELSE \* the except clause returns without closing conn
          /\ UNCHANGED << store, now, cur >>
          /\ dbConn' = FALSE
          /\ pc' = AfterStoreError
  /\ UNCHANGED << queryVars, scrapeVars, lastObs, handledDone, 
                  chanOpen, registered, pending, loc, metricVars, dbOpenConns,
                  dbUp, brokerUp, queueVars, outages, pubVars, histVars >>

\* lines 47-49: await conn.close(), print; then back in callback at line 76
DbClose ==
  /\ pc = "db_close"
  /\ dbConn' = FALSE
  /\ dbOpenConns' = dbOpenConns - 1
  /\ pc' = "ack"
  /\ UNCHANGED << queryVars, scrapeVars, lastObs, handledDone, 
                  chanOpen, registered, pending, cur, loc, metricVars,
                  store, now, dbUp, brokerUp, queueVars, outages, pubVars, histVars >>

\* --------------------------------------------------- broker and database
\* the broker pushes the head of the queue to the registered consumer,
\* at most PrefetchCount unsettled deliveries at a time
Deliver ==
  /\ brokerUp /\ chanOpen /\ registered
  /\ ready # <<>>
  /\ Len(unacked) < PrefetchCount
  /\ ready' = Tail(ready)
  /\ unacked' = IF AutoAck THEN unacked ELSE Append(unacked, Head(ready))
  /\ pending' = Append(pending, Head(ready))
  /\ UNCHANGED << queryVars, scrapeVars, lastObs, handledDone, 
                  pc, chanOpen, registered, cur, loc, dbConn, metricVars,
                  storeVars, dbUp, brokerUp, nextId, outages, pubVars, histVars >>

\* the broker goes away: every connection is lost, unsettled deliveries
\* go back to the head of the queue
BrokerDown ==
  /\ brokerUp
  /\ outages < MaxOutages
  /\ brokerUp' = FALSE
  /\ outages' = outages + 1
  /\ chanOpen' = FALSE
  /\ registered' = FALSE
  /\ pending' = <<>>
  /\ ready' = unacked \o ready
  /\ unacked' = <<>>
  /\ pubChanOpen' = FALSE
  /\ everLost' = (everLost \/ registered)
  /\ UNCHANGED << queryVars, scrapeVars, lastObs, handledDone, 
                  pc, cur, loc, dbConn, metricVars, storeVars, dbUp, nextId,
                  pubPc, pubVals, pubOpenConns, httpResp,
                  attemptsSinceBackoff, lastBackoff, settled >>

\* the broker comes back with the messages that survive a restart
BrokerRestart ==
  /\ ~brokerUp
  /\ brokerUp' = TRUE
  /\ ready' = SelectSeq(ready, Survives)
  /\ UNCHANGED << queryVars, scrapeVars, lastObs, handledDone, 
                  consumerVars, metricVars, storeVars, dbUp, unacked, nextId,
                  outages, pubVars, histVars >>

\* the database becomes unreachable / reachable again
DbToggle ==
  /\ dbUp' = ~dbUp
  /\ cur' = IF dbUp /\ cur.id # 0 THEN [cur EXCEPT !.outage = TRUE] ELSE cur
  /\ UNCHANGED << queryVars, scrapeVars, lastObs, handledDone, 
                  pc, chanOpen, registered, pending, loc, dbConn, metricVars, storeVars, brokerUp, queueVars,
                  outages, pubVars, histVars >>

\* some other producer puts an arbitrary body on queue sensor_data
ForeignPublish ==
  /\ brokerUp
  /\ nextId + (IF pubPc \in {"connect", "declare", "publish", "gen_connect",
                            "gen_declare", "gen_publish"} THEN 1 ELSE 0) <= MaxMsgs
  /\ \E b \in SampleBodies :
       ready' = Append(ready, [id |-> nextId, body |-> b, mode |-> DeliveryMode])
  /\ nextId' = nextId + 1
  /\ UNCHANGED << queryVars, scrapeVars, lastObs, handledDone, 
                  consumerVars, metricVars, storeVars, dbUp, brokerUp, unacked,
                  outages, pubVars, histVars >>


\* --------------------------------- POST /sensor-data, lines 144-175
\* lines 148-150: the three float(data.get(...)) coercions of the request
PubStart ==
  /\ pubPc = "idle"
  /\ nextId <= MaxMsgs
  /\ \E data \in SampleRequests :
       LET d == Decode(data)
       IN  IF d.ok
           THEN /\ pubVals' = [co2 |-> d.co2, humidity |-> d.humidity,
                               temperature |-> d.temperature]
                /\ pubPc' = "connect"
                /\ httpResp' = 0
           ELSE /\ pubVals' = NoLocals
                /\ pubPc' = "idle"
                /\ httpResp' = 400
  /\ UNCHANGED << queryVars, scrapeVars, lastObs, handledDone, 
                  consumerVars, metricVars, storeVars, dbUp, brokerUp, queueVars,
                  outages, pubChanOpen, pubOpenConns, histVars >>

\* lines 153-154: pika.BlockingConnection(...), connection.channel()
PubConnect ==
  /\ pubPc = "connect"
  /\ IF brokerUp
     THEN /\ pubChanOpen' = TRUE
          /\ pubOpenConns' = pubOpenConns + 1
          /\ pubPc' = "declare"
          /\ UNCHANGED << httpResp, pubVals >>
     ELSE /\ UNCHANGED << pubChanOpen, pubOpenConns >>
          /\ pubPc' = "idle"
          /\ pubVals' = NoLocals
          /\ httpResp' = 400
  /\ UNCHANGED << queryVars, scrapeVars, lastObs, handledDone, 
                  consumerVars, metricVars, storeVars, dbUp, brokerUp, queueVars,
                  outages, histVars >>

\* line 155: channel.queue_declare(queue=QUEUE_NAME, durable=True)
PubDeclare ==
  /\ pubPc = "declare"
  /\ IF pubChanOpen
     THEN /\ pubPc' = "publish"
          /\ UNCHANGED << httpResp, pubVals >>
     ELSE \* line 175; the connection object is never closed
          /\ pubPc' = "idle"
          /\ pubVals' = NoLocals
          /\ httpResp' = 400
  /\ UNCHANGED << queryVars, scrapeVars, lastObs, handledDone, 
                  consumerVars, metricVars, storeVars, dbUp, brokerUp, queueVars,
                  outages, pubChanOpen, pubOpenConns, histVars >>

\* lines 157-168: json.dumps and channel.basic_publish(..., delivery_mode=2)
PubPublish ==
  /\ pubPc = "publish"
  /\ IF pubChanOpen
     THEN /\ ready' = Append(ready,
                        [id |-> nextId,
                         body |-> Encode(pubVals.co2, pubVals.humidity,
                                         pubVals.temperature),
                         mode |-> DeliveryMode])
          /\ nextId' = nextId + 1
          /\ pubPc' = "close"
          /\ UNCHANGED << httpResp, pubVals >>
     ELSE /\ UNCHANGED << ready, nextId >>
          /\ pubPc' = "idle"
          /\ pubVals' = NoLocals
          /\ httpResp' = 400
  /\ UNCHANGED << queryVars, scrapeVars, lastObs, handledDone, 
                  consumerVars, metricVars, storeVars, dbUp, brokerUp, unacked,
                  outages, pubChanOpen, pubOpenConns, histVars >>

\* lines 170-172: connection.close() and the success response; close()
\* raises on a connection that is already lost and line 175 answers 400
PubClose ==
  /\ pubPc = "close"
  /\ IF pubChanOpen
     THEN /\ pubChanOpen' = FALSE
          /\ pubOpenConns' = pubOpenConns - 1
          /\ httpResp' = 200
     ELSE /\ UNCHANGED << pubChanOpen, pubOpenConns >>
          /\ httpResp' = 400
  /\ pubPc' = "idle"
  /\ pubVals' = NoLocals
  /\ UNCHANGED << queryVars, scrapeVars, lastObs, handledDone,
                  consumerVars, metricVars, storeVars, dbUp, brokerUp, queueVars,
                  outages, histVars >>

\* ----------------------------------- generate_dummy_data, lines 104-142
\* lines 111-113: the three random.uniform(...) draws
GenStart ==
  /\ pubPc = "idle"
  /\ nextId <= MaxMsgs
  /\ \E r \in DummyReadings : pubVals' = r
  /\ pubPc' = "gen_connect"
  /\ UNCHANGED << queryVars, scrapeVars, lastObs, handledDone,
                  consumerVars, metricVars, storeVars, dbUp, brokerUp, queueVars,
                  outages, pubChanOpen, pubOpenConns, httpResp, histVars >>

\* lines 117-118: pika.BlockingConnection(...), connection.channel()
GenConnect ==
  /\ pubPc = "gen_connect"
  /\ IF brokerUp
     THEN /\ pubChanOpen' = TRUE
          /\ pubOpenConns' = pubOpenConns + 1
          /\ pubPc' = "gen_declare"
          /\ pubVals' = pubVals
     ELSE \* lines 136-137: print, then asyncio.sleep(30)
          /\ UNCHANGED << pubChanOpen, pubOpenConns >>
          /\ pubPc' = "idle"
          /\ pubVals' = NoLocals
  /\ UNCHANGED << queryVars, scrapeVars, lastObs, handledDone,
                  consumerVars, metricVars, storeVars, dbUp, brokerUp, queueVars,
                  outages, httpResp, histVars >>

\* line 119: channel.queue_declare(queue=QUEUE_NAME, durable=True)
GenDeclare ==
  /\ pubPc = "gen_declare"
  /\ IF pubChanOpen
     THEN /\ pubPc' = "gen_publish"
          /\ pubVals' = pubVals
     ELSE /\ pubPc' = "idle"
          /\ pubVals' = NoLocals
  /\ UNCHANGED << queryVars, scrapeVars, lastObs, handledDone,
                  consumerVars, metricVars, storeVars, dbUp, brokerUp, queueVars,
                  outages, pubChanOpen, pubOpenConns, httpResp, histVars >>

\* lines 121-132: json.dumps and channel.basic_publish(..., delivery_mode=2)
GenPublish ==
  /\ pubPc = "gen_publish"
  /\ IF pubChanOpen
     THEN /\ ready' = Append(ready,
                        [id |-> nextId,
                         body |-> Encode(pubVals.co2, pubVals.humidity,
                                         pubVals.temperature),
                         mode |-> DeliveryMode])
          /\ nextId' = nextId + 1
          /\ pubPc' = "gen_close"
          /\ pubVals' = pubVals
     ELSE /\ UNCHANGED << ready, nextId >>
          /\ pubPc' = "idle"
          /\ pubVals' = NoLocals
  /\ UNCHANGED << queryVars, scrapeVars, lastObs, handledDone,
                  consumerVars, metricVars, storeVars, dbUp, brokerUp, unacked,
                  outages, pubChanOpen, pubOpenConns, httpResp, histVars >>

\* lines 134-135: connection.close(), print
GenClose ==
  /\ pubPc = "gen_close"
  /\ IF pubChanOpen
     THEN /\ pubChanOpen' = FALSE
          /\ pubOpenConns' = pubOpenConns - 1
     ELSE UNCHANGED << pubChanOpen, pubOpenConns >>
  /\ pubPc' = "idle"
  /\ pubVals' = NoLocals
  /\ UNCHANGED << queryVars, scrapeVars, lastObs, handledDone,
                  consumerVars, metricVars, storeVars, dbUp, brokerUp, queueVars,
                  outages, httpResp, histVars >>

GeneratorStep ==
  \/ GenStart \/ GenConnect \/ GenDeclare \/ GenPublish \/ GenClose

\* --------------------------------- GET /latest-data, lines 187-210
\* line 191: conn = await get_db_connection()
QueryConnect ==
  /\ qPc = "idle"
  /\ queries < MaxQueries
  /\ queries' = queries + 1
  /\ IF dbUp
     THEN /\ dbOpenConns' = dbOpenConns + 1
          /\ qPc' = "fetch"
          /\ qResp' = 0
     ELSE \* line 210: HTTPException(status_code=500)
          /\ dbOpenConns' = dbOpenConns
          /\ qPc' = "idle"
          /\ qResp' = 500
  /\ qRow' = NoRow
  /\ UNCHANGED << consumerVars, metricVars, store, now, dbUp, brokerUp, queueVars,
                  outages, pubVars, histVars, scrapeVars, lastObs, handledDone >>

\* lines 192-196: row = await conn.fetchrow("SELECT ... ORDER BY timestamp DESC LIMIT 1")
QueryFetch ==
  /\ qPc = "fetch"
  /\ IF dbUp
     THEN /\ qRow' = Latest(store)
          /\ qPc' = "close"
          /\ qResp' = qResp
     ELSE \* line 210; conn.close() at line 197 is not reached
          /\ qRow' = qRow
          /\ qPc' = "idle"
          /\ qResp' = 500
  /\ UNCHANGED << consumerVars, metricVars, storeVars, dbUp, brokerUp, queueVars,
                  outages, pubVars, histVars, queries, scrapeVars, lastObs,
                  handledDone >>

\* lines 197-207: await conn.close() and the response
QueryClose ==
  /\ qPc = "close"
  /\ dbOpenConns' = dbOpenConns - 1
  /\ qPc' = "idle"
  /\ qResp' = 200
  /\ UNCHANGED << consumerVars, metricVars, store, now, dbUp, brokerUp, queueVars,
                  outages, pubVars, histVars, qRow, queries, scrapeVars, lastObs,
                  handledDone >>

QueryStep == QueryConnect \/ QueryFetch \/ QueryClose

\* ------------------------------------------------------- specification
ConsumerStep ==
  \/ Connect \/ Declare \/ Register \/ Dispatch \/ ConsumeFails \/ Backoff
  \/ DecodeBody \/ SetCo2 \/ SetHumidity \/ SetTemperature \/ IncCounter
  \/ DbConnect \/ DbInsert \/ DbClose \/ Ack \/ Print77 \/ Nack

PublisherStep ==
  \/ PubStart \/ PubConnect \/ PubDeclare \/ PubPublish \/ PubClose

Next ==
  \/ Connect \/ Declare \/ Register \/ Dispatch \/ ConsumeFails \/ Backoff
  \/ DecodeBody \/ SetCo2 \/ SetHumidity \/ SetTemperature \/ IncCounter
  \/ DbConnect \/ DbInsert \/ DbClose \/ Ack \/ Print77 \/ Nack
  \/ PubStart \/ PubConnect \/ PubDeclare \/ PubPublish \/ PubClose
  \/ Deliver \/ BrokerDown \/ BrokerRestart \/ DbToggle \/ ForeignPublish

Spec == Init /\ [][Next]_vars

\* the supervisor with its broker, database and one foreign producer; the
\* consumer thread is scheduled as long as it has a step to take, and the
\* broker hands over a waiting message as long as it may
LiveNext ==
  \/ ConsumerStep
  \/ Deliver \/ BrokerDown \/ BrokerRestart \/ DbToggle
  \/ ForeignPublish

LiveSpec == Init /\ [][LiveNext]_vars /\ WF_vars(ConsumerStep) /\ WF_vars(Deliver)

\* ------------------------------------------- GET /metrics, lines 177-180
\* generate_latest() walks the registry and reads one metric after the other,
\* in the order of their registration (lines 19-22); no lock spans the four
ScrapeCo2 ==
  /\ sPc = "idle"
  /\ snap' = [NoSnap EXCEPT !.co2 = co2_gauge]
  /\ sPc' = "humidity"
  /\ UNCHANGED << consumerVars, metricVars, storeVars, dbUp, brokerUp, queueVars,
                  outages, pubVars, histVars, queryVars, lastObs, handledDone >>

ScrapeHumidity ==
  /\ sPc = "humidity"
  /\ snap' = [snap EXCEPT !.humidity = humidity_gauge]
  /\ sPc' = "temperature"
  /\ UNCHANGED << consumerVars, metricVars, storeVars, dbUp, brokerUp, queueVars,
                  outages, pubVars, histVars, queryVars, lastObs, handledDone >>

ScrapeTemperature ==
  /\ sPc = "temperature"
  /\ snap' = [snap EXCEPT !.temperature = temperature_gauge]
  /\ sPc' = "count"
  /\ UNCHANGED << consumerVars, metricVars, storeVars, dbUp, brokerUp, queueVars,
                  outages, pubVars, histVars, queryVars, lastObs, handledDone >>

\* the last sample is read and the response is returned
ScrapeCounter ==
  /\ sPc = "count"
  /\ snap' = [snap EXCEPT !.count = data_received_counter]
  /\ sPc' = "idle"
  /\ UNCHANGED << consumerVars, metricVars, storeVars, dbUp, brokerUp, queueVars,
                  outages, pubVars, histVars, queryVars, lastObs, handledDone >>

ScrapeStep == ScrapeCo2 \/ ScrapeHumidity \/ ScrapeTemperature \/ ScrapeCounter

\* the HTTP publisher's encoding and the callback's decoding, with bodies
\* of other producers on the same queue
CodecNext ==
  \/ ConsumerStep
  \/ PubStart \/ PubConnect \/ PubDeclare \/ PubPublish \/ PubClose
  \/ Deliver \/ BrokerDown \/ BrokerRestart \/ ForeignPublish

CodecSpec == Init /\ [][CodecNext]_vars

\* the ingestion path together with the GET /metrics handler
ScrapeNext ==
  \/ ConsumerStep
  \/ Deliver \/ BrokerDown \/ BrokerRestart \/ ForeignPublish
  \/ ScrapeCo2 \/ ScrapeHumidity \/ ScrapeTemperature \/ ScrapeCounter

ScrapeSpec == Init /\ [][ScrapeNext]_vars

\* the ingestion path together with the GET /latest-data handler
QueryNext ==
  \/ ConsumerStep
  \/ Deliver \/ BrokerDown \/ BrokerRestart \/ DbToggle \/ ForeignPublish
  \/ QueryConnect \/ QueryFetch \/ QueryClose

QuerySpec == Init /\ [][QueryNext]_vars

\* the two publishers (HTTP intake and synthetic generator), the broker and
\* the consumer; the consumer thread and the broker's delivery are scheduled
\* as long as they have a step to take
PubNext ==
  \/ ConsumerStep
  \/ Deliver \/ BrokerDown \/ BrokerRestart
  \/ PubStart \/ PubConnect \/ PubDeclare \/ PubPublish \/ PubClose
  \/ GenStart \/ GenConnect \/ GenDeclare \/ GenPublish \/ GenClose

PubSpec == Init /\ [][PubNext]_vars /\ WF_vars(ConsumerStep) /\ WF_vars(Deliver)

TypeOK ==
  /\ pc \in {"connect", "declare", "register", "consuming", "decode", "set_co2",
             "set_humidity", "set_temperature", "inc", "db_connect", "db_insert",
             "db_close", "ack", "print77", "nack", "sleep88", "sleep91", "terminated"}
  /\ chanOpen \in BOOLEAN /\ registered \in BOOLEAN /\ dbConn \in BOOLEAN
  /\ dbUp \in BOOLEAN /\ brokerUp \in BOOLEAN
  /\ Len(unacked) <= MaxMsgs /\ Len(ready) <= MaxMsgs


\* ------------------------------------------------------------ properties
\* what the claims call a well-formed body and the values it carries
WellFormed(b) ==
  /\ b.kind = "object"
  /\ \A f \in {b.co2, b.humidity, b.temperature} : f.t \in {"missing", "num", "numstr"}
Carried(f) == IF f.t = "missing" THEN 0 ELSE f.v
Malformed(b) == ~WellFormed(b)
Handling == cur.id # 0
CallbackReturns == pc \in {"print77", "nack"} /\ pc' = "consuming"
RowFor(id) == \E i \in 1..Len(store) : store[i].src = id
InQueue(id) == Holds(ready, id) \/ Holds(unacked, id)

\* C1: when the callback returns from a well-formed message handled with the
\* store available throughout, the latest row carries the message's three
\* values, the counter is one above its value at delivery, and the delivery
\* was acknowledged.
C1_HandledReadingIsLatest ==
  [][ (CallbackReturns /\ WellFormed(cur.body) /\ ~cur.outage) =>
        /\ store' # <<>>
        /\ Latest(store').co2_ppm = Carried(cur.body.co2)
        /\ Latest(store').humidity_percent = Carried(cur.body.humidity)
        /\ Latest(store').temperature_celsius = Carried(cur.body.temperature)
        /\ data_received_counter' = cur.cntBefore + 1
        /\ cur.acks = 1
        /\ settled'[cur.id] = "ack" ]_vars

C1_Witness ==
  /\ pc = "print77" /\ WellFormed(cur.body) /\ ~cur.outage /\ cur.acks = 1
  /\ Len(store) = 2
  /\ store[1].humidity_percent # store[2].humidity_percent
  /\ Latest(store).src = cur.id

\* C2: when the connect or the insert fails for a well-formed message, the
\* three gauges hold the incoming values and the store has the rows it had
\* when the message was delivered, up to the end of the callback.
C2_StoreOutageKeepsMetrics ==
  (pc \in {"ack", "print77", "nack"} /\ WellFormed(cur.body) /\ ~cur.inserted) =>
     /\ co2_gauge = Carried(cur.body.co2)
     /\ humidity_gauge = Carried(cur.body.humidity)
     /\ temperature_gauge = Carried(cur.body.temperature)
     /\ Len(store) = cur.rowsBefore

C2_Witness ==
  /\ pc = "ack" /\ WellFormed(cur.body) /\ ~cur.inserted /\ ~dbUp
  /\ Len(store) = 1
  /\ co2_gauge # store[1].co2_ppm
  /\ temperature_gauge # humidity_gauge

\* C3: while the callback handles a malformed body no gauge, counter, row or
\* callback local changes and no ack is issued; when the callback returns the
\* message has been nacked without requeue and is out of the queue; a message
\* nacked that way is never queued or delivered again.
C3_MalformedIsDropped ==
  /\ [][ (Handling /\ Malformed(cur.body)) =>
           /\ UNCHANGED << metricVars, store >>
           /\ loc = NoLocals /\ loc' = NoLocals
           /\ cur.acks = 0 /\ cur'.acks = 0
           /\ settled'[cur.id] # "ack"
           /\ (pc' = "consuming" =>
                 /\ settled'[cur.id] = "nack"
                 /\ ~Holds(ready', cur.id) /\ ~Holds(unacked', cur.id)) ]_vars
  /\ [](\A id \in 1..MaxMsgs :
          settled[id] = "nack" =>
            /\ ~InQueue(id) /\ ~Holds(pending, id) /\ cur.id # id)

C3_Witness ==
  /\ pc = "consuming" /\ cur = NoDelivery
  /\ settled[2] = "nack" /\ settled[1] = "ack"
  /\ data_received_counter = 1 /\ Len(store) = 1
  /\ co2_gauge # 0


\* C4: a message leaves the queue by a positive acknowledgment only when a
\* row for it is in the store (a failed append is never acknowledged).
C4_AckOnlyWhenPersisted ==
  \A id \in 1..MaxMsgs : settled[id] = "ack" => RowFor(id)

\* C5: a well-formed message is not lost to a store outage: it leaves the
\* queue only once a row for it is in the store, and stays queued for
\* redelivery until then.
C5_StoreOutageRedelivered ==
  [][ \A id \in 1..MaxMsgs :
        (InQueue(id) /\ ~InQueue(id)' /\ cur.id = id /\ WellFormed(cur.body))
          => RowFor(id)' ]_vars

\* C6: the broker holds at most one unsettled delivery for the consumer, and
\* a further delivery reaches the client only when the callback is idle or
\* has acknowledged the delivery it is handling.
C6_OneInFlight ==
  /\ Len(unacked) <= 1
  /\ Len(pending) <= 1
  /\ (pending # <<>> => (cur.id = 0 \/ cur.acks = 1))
  /\ (Handling /\ Holds(unacked, cur.id) => pending = <<>>)

C6_Witness ==
  /\ Handling /\ pc = "db_insert" /\ chanOpen /\ registered /\ brokerUp
  /\ Holds(unacked, cur.id) /\ Len(ready) = 1 /\ pending = <<>>

C9_LoopNeverTerminates ==
  pc # "terminated"

C9_Witness ==
  /\ pc = "sleep91" /\ everLost /\ ~chanOpen /\ data_received_counter = 2

\* C10: a message leaves the queue only in the consumer's ack or nack of the
\* delivery the callback has finished handling; a delivery unsettled when
\* the connection is lost is back in the queue, and, if the broker eventually
\* stays reachable, every queued message is handed to the callback (again).
C10_AtLeastOnce ==
  /\ [][ \A id \in 1..MaxMsgs :
           (InQueue(id) /\ ~InQueue(id)') =>
             (pc \in {"ack", "nack"} /\ pc' # pc /\ cur.id = id) ]_vars
  /\ [][ \A id \in 1..MaxMsgs :
           (Holds(unacked, id) /\ chanOpen /\ ~chanOpen') => Holds(ready', id) ]_vars
  /\ ((<>[]brokerUp) =>
        \A id \in 1..MaxMsgs : [](Holds(ready, id) => <>(cur.id = id)))

C10_Witness ==
  /\ Handling /\ pc = "decode" /\ Holds(unacked, cur.id)
  /\ RowFor(cur.id) /\ everLost /\ chanOpen


Disconnected == pc \in {"sleep88", "sleep91"}
Consuming == pc = "consuming" /\ chanOpen /\ registered

\* C7: if the broker eventually stays reachable, then every time the
\* supervisor has fallen back to Disconnected it reaches Consuming again.
C7_ReconnectsForever ==
  (<>[]brokerUp) => [](Disconnected => <>Consuming)

C7_Witness ==
  /\ Consuming /\ everLost /\ lastBackoff = 5 /\ outages = MaxOutages


\* a store operation is in progress: process_sensor_data between its connect
\* and its close, or get_latest_data between its connect and its close
StoreOpInProgress == pc \in {"db_insert", "db_close"} \/ qPc # "idle"

\* C11: whenever no store operation is in progress, no storage connection
\* is open: append and latest release their connection on every exit path.
C11_ConnectionsReleased ==
  ~StoreOpInProgress => dbOpenConns = 0


PublisherMoves == pubPc' # pubPc \/ httpResp' # httpResp

\* C12: POST /sensor-data answers 200 only from the close that follows the
\* one basic_publish of the request, which appends one message carrying the
\* request's three values; a request that fails at coercion, connect,
\* declare or publish answers 400 and has put nothing on the queue.
C12_PostPublishesOnce ==
  /\ [][ (httpResp' = 200 /\ httpResp # 200) => pubPc = "close" ]_vars
  /\ [][ (pubPc' = "close" /\ pubPc # "close") =>
           /\ pubPc = "publish"
           /\ nextId' = nextId + 1
           /\ Len(ready') = Len(ready) + 1
           /\ SubSeq(ready', 1, Len(ready)) = ready
           /\ LET m == ready'[Len(ready')]
              IN  /\ m.id = nextId
                  /\ WellFormed(m.body)
                  /\ Carried(m.body.co2) = pubVals.co2
                  /\ Carried(m.body.humidity) = pubVals.humidity
                  /\ Carried(m.body.temperature) = pubVals.temperature ]_vars
  /\ [][ (pubPc \in {"connect", "declare", "close"} /\ PublisherMoves) =>
           nextId' = nextId ]_vars
  /\ [][ (pubPc \in {"idle", "connect", "declare", "publish"}
            /\ PublisherMoves /\ pubPc' = "idle") =>
           (httpResp' = 400 /\ UNCHANGED << ready, unacked, nextId >>) ]_vars

C12_Witness ==
  /\ pubPc = "idle" /\ httpResp = 200 /\ nextId = 2
  /\ Len(ready) = 1 /\ ready[1].body = Obj(Num(1), Num(2), Num(1))

\* C13: every message the two publishers put on the queue is persistent on
\* a durable queue: a broker restart keeps every queued message, a message
\* leaves the queue only when the consumer settles it, and, if the broker
\* eventually stays reachable, every queued message reaches the callback.
C13_PersistentUntilSettled ==
  /\ [](\A i \in 1..Len(ready) : ready[i].mode = 2)
  /\ [][ (~brokerUp /\ brokerUp') => ready' = ready ]_vars
  /\ [][ \A id \in 1..MaxMsgs :
           (InQueue(id) /\ ~InQueue(id)') => settled'[id] \in {"ack", "nack"} ]_vars
  /\ ((<>[]brokerUp) =>
        \A id \in 1..MaxMsgs : [](InQueue(id) => <>(cur.id = id)))

C13_Witness ==
  /\ Handling /\ pc = "decode" /\ cur.body = Obj(Num(2), Num(1), Num(2))
  /\ RowFor(cur.id) /\ outages = 1 /\ brokerUp /\ Holds(unacked, cur.id)


C15_HandlingIdempotent ==
  \A i \in 1..Len(store), j \in 1..Len(store) :
    store[i].src = store[j].src => i = j


\* C16: a metrics scrape never observes a torn state: a completed snapshot
\* whose counter equals the count of the latest reading observed carries
\* that reading's three gauge values.
C16_ScrapeNotTorn ==
  (sPc = "idle" /\ snap.count = lastObs.count) => snap = lastObs


C18_SettledOnce ==
  [][ (pc = "nack" /\ pc' # pc /\ chanOpen) => cur.acks = 0 ]_vars


\* C19: every connection a publish opened is closed by the time the publish
\* returns: whenever neither publisher is inside a publish, no publisher
\* connection is open.
C19_PublisherConnectionsClosed ==
  pubPc = "idle" => pubOpenConns = 0

====
